---- MODULE Spec2Model ----
(***************************************************************************)
(* Model of the qdrant_qwen repository: the embedding service              *)
(* (embedding_service.py), the OpenAI-compatible front-end                 *)
(* (openai_compatible_api.py), the two stdio JSON-RPC bridges              *)
(* (qdrant_mcp_server.py, localai_mcp_server.py) and the health check      *)
(* script (healthcheck.py).                                                *)
(***************************************************************************)
EXTENDS Integers, Sequences, FiniteSets, TLC

VARIABLES
    \* ---- embedding_service.py: module globals ----
    started,              \* the startup event has run (uvicorn serves only afterwards)
    model_type,           \* global model_type
    model_device,         \* global model_device
    QWEN3_EMBEDDING_DIM,  \* global QWEN3_EMBEDDING_DIM
    probe,                \* how the calls of load_model went: [version_ok, kind, len]
    np_random,            \* numpy's process-wide RandomState: [seed, pos]
    \* ---- embedding_service.py: the last HTTP exchange served ----
    request,              \* the last request: [endpoint, text, reply]
    response,             \* its response: [status, embedding, dimension, detail]
    backend_calls,        \* POSTs sent to the Ollama backend while serving it
    health,               \* the last reply of GET /health: [called, status, model_loaded, device]
    \* ---- embedding_service.py: the last POST /embed_batch served ----
    batch_request,        \* [called, items], an item a [text, reply]
    batch_response,       \* [status, responses, detail]
    batch_trace,          \* what happened while serving it, in order
    \* ---- openai_compatible_api.py: the last text resolved ----
    front_request,        \* [called, text, reach]
    front_response,       \* [source, embedding, blocks]
    front_calls,          \* POSTs sent to the embedding service for it
    \* ---- deterministic_embedding called on its own ----
    gen_call,             \* the last call: [called, text, dimension, vector]
    gen_kept,             \* one earlier call, kept for comparison
    gen_between,          \* a call for another text ran since gen_kept
    \* ---- qdrant_mcp_server.py / localai_mcp_server.py: one bridge process ----
    server,               \* which bridge this process is: "qdrant" or "localai"
    collection_name,      \* QdrantMCPServer.collection_name
    pc,                   \* "Reading", "Dispatching" or "Terminated"
    eof,                  \* readline has returned the empty string
    line,                 \* the line read last
    arrived,              \* the lines read so far, each as [syntax, id]
    stdout,               \* the lines printed so far, each by its id and shape
    written,              \* the lines printed while dispatching `line`, in full
    http_sent,            \* the HTTP requests sent while dispatching `line`
    http_reply,           \* how the HTTP request sent was answered
    insert_calls,         \* the insert requests sent to the store so far
    created,              \* the collections the store was asked to create so far
    \* ---- healthcheck.py: one run of the script ----
    hc_service,           \* args.service: "embedding" or "llm" ("none" before parsing)
    hc_pc,                \* "start", "loop", "sleep", "gpu", "returned" or "exited"
    hc_i,                 \* the loop variable i of check_llm_service
    hc_replies,           \* how the GETs sent so far ended, in order
    hc_gpu,               \* what check_basic_gpu printed, "none" if it did not run
    hc_result,            \* what the check returned: "True", "False", or "raised"
    hc_exit               \* the exit status of the script, "none" while it runs

embed_vars == <<started, model_type, model_device, QWEN3_EMBEDDING_DIM, probe,
                request, response, backend_calls, health>>
batch_vars == <<batch_request, batch_response, batch_trace>>
front_vars == <<front_request, front_response, front_calls>>
gen_vars == <<gen_call, gen_kept, gen_between>>
rpc_vars == <<server, collection_name, pc, eof, line, arrived, stdout, written,
              http_sent, http_reply, insert_calls, created>>
hc_vars == <<hc_service, hc_pc, hc_i, hc_replies, hc_gpu, hc_result, hc_exit>>

----------------------------------------------------------------------------
(* Bounds of the model.                                                    *)

\* Longest embedding list the backend returns.
MaxRemoteLen == 3
\* Backend embedding components are drawn from 0..MaxComponent.
MaxComponent == 1
\* deterministic_embedding on its own is called with dimensions 0..MaxGenDim
\* and with the default dimension.
MaxGenDim == 2
\* A bridge reads at most MaxLines lines before its input ends.
MaxLines == 3
\* A batch request has at most MaxBatch items.
MaxBatch == 2

----------------------------------------------------------------------------
(* Program constants.                                                      *)

\* QWEN3_EMBEDDING_DIM = 2560, and the literal 2560 of the fallback calls.
DEFAULT_EMBEDDING_DIM == 2560
\* The 2560 of get_fallback_embeddings in openai_compatible_api.py.
FALLBACK_DIMENSION == 2560
Texts == {"hello world", "test", ""}

----------------------------------------------------------------------------
(* hashlib.md5(text.encode('utf-8')).hexdigest(), as its 32 hex digits.     *)
hexdigest(text) ==
    CASE
       text = "hello world" ->
         <<5,14,11,6,3,11,11,11,14,0,1,14,14,14,13,0,9,3,12,11,2,2,11,11,8,15,5,10,12,13,12,3>>
    [] text = "test" ->
         <<0,9,8,15,6,11,12,13,4,6,2,1,13,3,7,3,12,10,13,14,4,14,8,3,2,6,2,7,11,4,15,6>>
    [] text = "" ->
         <<13,4,1,13,8,12,13,9,8,15,0,0,11,2,0,4,14,9,8,0,0,9,9,8,14,12,15,8,4,2,7,14>>

RECURSIVE HexToInt(_)
\* int(hex, 16) of a sequence of hex digits
HexToInt(hex) ==
    IF hex = <<>> THEN 0
    ELSE 16 * HexToInt(SubSeq(hex, 1, Len(hex) - 1)) + hex[Len(hex)]

\* seed = int(hash_obj.hexdigest()[:8], 16): a 32-bit unsigned value, kept as
\* its two 16-bit halves (TLC's integers are 32-bit signed)
Seed(text) ==
    [hi |-> HexToInt(SubSeq(hexdigest(text), 1, 4)),
     lo |-> HexToInt(SubSeq(hexdigest(text), 5, 8))]

----------------------------------------------------------------------------
(* numpy.  The generator (Mersenne Twister, normal transform) is a library *)
(* whose values are not computed here.  The process-wide generator state   *)
(* is [seed, pos]: the seed it was last started from and how many samples  *)
(* it has produced since.  An array of samples is named by the stream and  *)
(* the positions it was drawn at: two sample arrays are the same floats    *)
(* exactly when they were drawn from the same seed at the same positions.  *)

\* np.random.seed(seed): the process-wide generator restarts from seed
NpRandomSeedNoReseed(state, seed) == state
NpRandomSeed(state, seed) == [seed |-> seed, pos |-> 0]

\* np.random.normal(0, 0.1, n): n samples, the generator advances by n
NpRandomNormal(state, n) ==
    [samples |-> [seed |-> state.seed, from |-> state.pos, len |-> n],
     state   |-> [state EXCEPT !.pos = @ + n]]

RECURSIVE SumSq(_, _, _)
\* sum of v[i]^2 for lo <= i <= hi
SumSq(v, lo, hi) ==
    IF lo > hi THEN 0
    ELSE IF lo = hi THEN v[lo] * v[lo]
    ELSE LET mid == (lo + hi) \div 2
         IN  SumSq(v, lo, mid) + SumSq(v, mid + 1, hi)

\* np.linalg.norm(v) ** 2 of a list of numbers
NormSq(v) == SumSq(v, 1, Len(v))

\* A float of a normalized list is num / sqrt(den2); 0.0 / 0.0 is nan.
NaN == [num |-> 0, den2 |-> 0]

NoStream == [seed |-> [hi |-> -1, lo |-> -1], from |-> 0]

\* A list of floats as the handlers return it: its length, and either its
\* components (elems) or the sample stream it is the normalization of.
FloatList(elems) == [len |-> Len(elems), elems |-> elems, stream |-> NoStream]

\* v / norm, the norm given by its square n2: a zero norm gives nan in
\* every place
DivideBy(v, n2) ==
    [i \in 1..Len(v) |-> IF n2 = 0 THEN NaN ELSE [num |-> v[i], den2 |-> n2]]

\* (np.array(v) / np.linalg.norm(v)).tolist() of a list of numbers, with no
\* guard on the norm
DivideByNorm(v) == FloatList(DivideBy(v, NormSq(v)))

\* (samples / np.linalg.norm(samples)).tolist() of drawn samples: samples of
\* a continuous distribution, none of them 0.0
DivideSamplesByNorm(samples) ==
    [len |-> samples.len, elems |-> <<>>,
     stream |-> [seed |-> samples.seed, from |-> samples.from]]

\* deterministic_embedding(text, dimension) run on generator state `state`:
\* the vector returned and the generator state left behind
deterministic_embedding(text, dimension, state) ==
    LET seeded == NpRandomSeed(state, Seed(text))
        drawn  == NpRandomNormal(seeded, dimension)
    IN  [vector |-> DivideSamplesByNorm(drawn.samples), rng |-> drawn.state]

----------------------------------------------------------------------------
(* The Ollama backend, as seen through requests.post(...).                 *)

RemoteVectors == UNION {[1..n -> 0..MaxComponent] : n \in 0..MaxRemoteLen}

FailureKinds ==
    {"connection_refused", "timeout", "http_error_status", "body_not_json",
     "no_embedding_field", "embedding_null"}

\* What one POST /api/embeddings can come back with.
BackendReplies ==
    [kind : FailureKinds, vec : {<<>>}]
        \cup [kind : {"embedding"}, vec : RemoteVectors]

\* requests.exceptions.RequestException: raised by requests.post,
\* raise_for_status and response.json
IsRequestException(kind) ==
    kind \in {"connection_refused", "timeout", "http_error_status", "body_not_json"}

NoReply == [kind |-> "none", vec |-> <<>>]

----------------------------------------------------------------------------
(* embedding_service.py                                                    *)

MODEL_NAME == "sentence-transformers/all-MiniLM-L6-v2"

\* EmbeddingRequest.model_name: Optional[str]
ModelNames == {"None", "my-model"}

\* The interpreter's generator before any np.random.seed: seeded from the
\* operating system, so one of several states.
EntropySeeds == {[hi |-> 0, lo |-> 0], [hi |-> 0, lo |-> 7]}

\* lines 215-218: truncate if too long, pad with 0.0 if too short
ReconcileDimension(vec, target_dim) ==
    IF Len(vec) > target_dim THEN SubSeq(vec, 1, target_dim)
    ELSE vec \o [i \in 1..(target_dim - Len(vec)) |-> 0]

\* What a call returns or raises: [raised, status, detail, value, rng, calls].
Returned(value, rng, calls) ==
    [raised |-> FALSE, status |-> 200, detail |-> "", value |-> value,
     rng |-> rng, calls |-> calls]

Raised(status, detail, rng, calls) ==
    [raised |-> TRUE, status |-> status, detail |-> detail, value |-> FloatList(<<>>),
     rng |-> rng, calls |-> calls]

\* The two except clauses of get_embeddings (lines 236-245): both return
\* deterministic_embedding(text, 2560).
FallbackOnErrorReraise(text, kind, state) ==
    IF IsRequestException(kind)
    THEN LET d == deterministic_embedding(text, DEFAULT_EMBEDDING_DIM, state)
         IN  Returned(d.vector, d.rng, 1)
    ELSE Raised(500, kind, state, 1)
FallbackOnErrorRetries(text, kind, state) ==
    LET d == deterministic_embedding(text, DEFAULT_EMBEDDING_DIM, state)
    IN  Returned(d.vector, d.rng, 2)
FallbackOnError(text, kind, state) ==
    LET d == deterministic_embedding(text, DEFAULT_EMBEDDING_DIM, state)
    IN  Returned(d.vector, d.rng, 1)

\* get_embeddings(text) when the backend answers the POST with `reply`
get_embeddings(text, reply, state) ==
    IF model_type # "ollama_qwen3"
    THEN Raised(503, "Ollama Qwen3 model not loaded", state, 0)
    ELSE IF reply.kind # "embedding"
    THEN FallbackOnError(text, reply.kind, state)
    ELSE LET target_dim == QWEN3_EMBEDDING_DIM
             embedding_vector == ReconcileDimension(reply.vec, target_dim)
         IN  Returned(DivideByNorm(embedding_vector), state, 1)

NoRequest == [endpoint |-> "none", text |-> "", model_name |-> "None", reply |-> NoReply]
NoResponse == [status |-> 0, embedding |-> FloatList(<<>>), model |-> "", dimension |-> 0, detail |-> ""]

\* create_embedding: POST /embed.  The handler's own result: the
\* EmbeddingResponse it returns or the HTTPException it raises.
create_embedding(text, model_name, reply, state) ==
    LET r == get_embeddings(text, reply, state)
    IN  IF r.raised
        THEN [response |-> [NoResponse EXCEPT !.status = 500, !.detail = r.detail],
              rng |-> r.rng, calls |-> r.calls]
        ELSE [response |-> [status    |-> 200,
                            embedding |-> r.value,
                            model     |-> IF model_name # "None" THEN model_name
                                          ELSE MODEL_NAME \o "_" \o model_type,
                            dimension |-> r.value.len,
                            detail    |-> ""],
              rng |-> r.rng, calls |-> r.calls]

\* A load_model that marks the backend ready as soon as the version check
\* has passed.
load_model_partial(version_ok, reply, cuda) ==
    IF version_ok
    THEN [raised |-> reply.kind # "embedding",
          model_device |-> IF cuda THEN "cuda" ELSE "cpu",
          model_type |-> "ollama_qwen3",
          dim |-> IF reply.kind = "embedding" THEN Len(reply.vec)
                  ELSE QWEN3_EMBEDDING_DIM]
    ELSE [raised |-> TRUE, model_device |-> model_device,
          model_type |-> model_type, dim |-> QWEN3_EMBEDDING_DIM]

\* load_model (the second definition, lines 119-174, which replaces the
\* first): the globals it leaves, and whether it raised.
load_model(version_ok, reply, cuda) ==
    IF version_ok /\ reply.kind = "embedding"
    THEN [raised |-> FALSE,
          model_device |-> IF cuda THEN "cuda" ELSE "cpu",
          model_type |-> "ollama_qwen3",
          dim |-> Len(reply.vec)]
    ELSE [raised |-> TRUE, model_device |-> model_device,
          model_type |-> model_type, dim |-> QWEN3_EMBEDDING_DIM]

\* What the POST of the probe comes back with; NoReply when it is never
\* sent, the version check having failed before.
ProbeReplies == BackendReplies \cup {NoReply}

NoProbe == [version_ok |-> FALSE, kind |-> "none", len |-> 0]

\* startup_event: runs load_model once and swallows what it raises.
Startup(version_ok, reply, cuda) ==
    /\ ~started
    /\ version_ok <=> reply # NoReply
    /\ started' = TRUE
    /\ probe' = [version_ok |-> version_ok, kind |-> reply.kind, len |-> Len(reply.vec)]
    /\ LET m == load_model(version_ok, reply, cuda)
       IN  /\ model_device' = m.model_device
           /\ model_type' = m.model_type
           /\ QWEN3_EMBEDDING_DIM' = m.dim
    /\ UNCHANGED <<np_random, request, response, backend_calls, health>>
    /\ UNCHANGED <<batch_vars, front_vars, gen_vars, rpc_vars, hc_vars>>

\* A POST /embed that takes the backend's reply as a new probe.
EmbedReprobes(text, model_name, reply) ==
    /\ started
    /\ LET c == create_embedding(text, model_name, reply, np_random)
       IN  /\ response' = c.response
           /\ np_random' = c.rng
           /\ backend_calls' = c.calls
    /\ request' = [endpoint |-> "/embed", text |-> text,
                   model_name |-> model_name, reply |-> reply]
    /\ model_type' = IF reply.kind = "embedding" THEN "ollama_qwen3"
                     ELSE "sentence_transformers"
    /\ QWEN3_EMBEDDING_DIM' = IF reply.kind = "embedding" THEN Len(reply.vec)
                              ELSE QWEN3_EMBEDDING_DIM
    /\ UNCHANGED <<started, model_device, probe, health>>
    /\ UNCHANGED <<batch_vars, front_vars, gen_vars, rpc_vars, hc_vars>>

\* One POST /embed, served from start to end: get_embeddings is a plain
\* function with a blocking requests.post, so the event loop runs nothing
\* else meanwhile.
Embed(text, model_name, reply) ==
    /\ started
    /\ LET c == create_embedding(text, model_name, reply, np_random)
       IN  /\ response' = c.response
           /\ np_random' = c.rng
           /\ backend_calls' = c.calls
    /\ request' = [endpoint |-> "/embed", text |-> text,
                   model_name |-> model_name, reply |-> reply]
    /\ UNCHANGED <<started, model_type, model_device, QWEN3_EMBEDDING_DIM, probe, health>>
    /\ UNCHANGED <<batch_vars, front_vars, gen_vars, rpc_vars, hc_vars>>

NoCall == [called |-> FALSE, text |-> "", dimension |-> 0, vector |-> FloatList(<<>>)]

----------------------------------------------------------------------------
(* GET /health                                                             *)

\* embedding_model = None: the global is assigned nowhere else.
embedding_model == "None"

NoHealth == [called |-> FALSE, status |-> "", model_loaded |-> FALSE, device |-> ""]

\* health_check(), `cuda` being what torch.cuda.is_available() answers
health_check(cuda) ==
    LET actual_device ==
            IF model_type = "sentence_transformers"
            THEN IF cuda THEN "cuda" ELSE "cpu"
            ELSE model_device
    IN  [called |-> TRUE,
         status |-> "healthy",
         model_loaded |-> (embedding_model # "None" \/ model_type = "deterministic"),
         device |-> actual_device]

\* One GET /health
Health(cuda) ==
    /\ started
    /\ health' = health_check(cuda)
    /\ UNCHANGED <<started, model_type, model_device, QWEN3_EMBEDDING_DIM, probe,
                   np_random, request, response, backend_calls>>
    /\ UNCHANGED <<batch_vars, front_vars, gen_vars, rpc_vars, hc_vars>>

NextEmbedding ==
    \/ \E version_ok \in BOOLEAN, reply \in ProbeReplies, cuda \in BOOLEAN :
           Startup(version_ok, reply, cuda)
    \/ \E text \in Texts, model_name \in ModelNames, reply \in BackendReplies :
           Embed(text, model_name, reply)

\* The embedding service answering /embed and /health.
NextHealth ==
    \/ \E version_ok \in BOOLEAN, reply \in ProbeReplies, cuda \in BOOLEAN :
           Startup(version_ok, reply, cuda)
    \/ \E text \in Texts, model_name \in ModelNames, reply \in BackendReplies :
           Embed(text, model_name, reply)
    \/ \E cuda \in BOOLEAN : Health(cuda)

----------------------------------------------------------------------------
(* POST /embed_batch                                                       *)

BatchTexts == {"hello world", "test"}

\* How the backend answers the call made for an item: two ways to fail
\* (one a RequestException, one not) and one embedding.
BatchReplies ==
    {[kind |-> "timeout", vec |-> <<>>],
     [kind |-> "no_embedding_field", vec |-> <<>>],
     [kind |-> "embedding", vec |-> <<1>>]}

\* requests: List[EmbeddingRequest], each with the reply its backend call
\* will get; model_name is left out (None).
BatchItems == [text : BatchTexts, reply : BatchReplies]
Batches == UNION {[1..n -> BatchItems] : n \in 0..MaxBatch}

NoBatch == [called |-> FALSE, items |-> <<>>]
NoBatchResponse == [status |-> 0, responses |-> <<>>, detail |-> ""]

Event(what, item) == [what |-> what, item |-> item]

\* What create_embedding did for item i, in the order of its code, read off
\* its result c: the POST to the backend, the call of
\* deterministic_embedding, and the return or raise.
ItemEvents(i, c) ==
    (IF c.calls > 0 THEN <<Event("post", i)>> ELSE <<>>)
        \o (IF c.response.status = 200 /\ c.response.embedding.stream # NoStream
            THEN <<Event("fallback", i)>> ELSE <<>>)
        \o <<Event(IF c.response.status = 200 THEN "returned" ELSE "raised", i)>>

RECURSIVE create_embeddings_batch(_, _, _, _, _)
\* create_embeddings_batch(requests) from item i on: for request in
\* requests: response = await create_embedding(request);
\* responses.append(response).  An HTTPException of create_embedding leaves
\* the loop and becomes the answer.
create_embeddings_batch(items, i, state, responses, trace) ==
    IF i > Len(items)
    THEN [status |-> 200, responses |-> responses, detail |-> "",
          rng |-> state, trace |-> trace]
    ELSE LET c == create_embedding(items[i].text, "None", items[i].reply, state)
             t == trace \o ItemEvents(i, c)
         IN  IF c.response.status # 200
             THEN [status |-> c.response.status, responses |-> <<>>,
                   detail |-> c.response.detail, rng |-> c.rng, trace |-> t]
             ELSE create_embeddings_batch(items, i + 1, c.rng,
                                          Append(responses, c.response), t)

\* One POST /embed_batch, served from start to end.
EmbedBatch(items) ==
    /\ started
    /\ LET b == create_embeddings_batch(items, 1, np_random, <<>>, <<>>)
       IN  /\ batch_response' = [status |-> b.status, responses |-> b.responses,
                                 detail |-> b.detail]
           /\ batch_trace' = b.trace
           /\ np_random' = b.rng
    /\ batch_request' = [called |-> TRUE, items |-> items]
    /\ UNCHANGED <<embed_vars, front_vars, gen_vars, rpc_vars, hc_vars>>

NextBatch ==
    \/ \E version_ok \in BOOLEAN, reply \in ProbeReplies, cuda \in BOOLEAN :
           Startup(version_ok, reply, cuda)
    \/ \E items \in Batches : EmbedBatch(items)

----------------------------------------------------------------------------
(* openai_compatible_api.py: the front-end that resolves a text through    *)
(* the embedding service, or through its own hash-based fallback.          *)

\* hex_slice = hex_digest[i:i+8] if i + 8 <= len(hex_digest)
\*             else hex_digest[i:] + "0" * (8 - (len(hex_digest) - i))
\* by its length and its digits (positions from 1): past the end of the
\* digest, hex_digest[i:] is empty and the slice is zeros only.
SliceLen(hex, i) ==
    IF i + 8 <= Len(hex) THEN 8
    ELSE (IF i < Len(hex) THEN Len(hex) - i ELSE 0) + (8 - (Len(hex) - i))

SliceDigit(hex, i, p) ==
    IF i + p <= Len(hex) THEN hex[i + p] ELSE 0

\* (hash_val >> shift) & 0xFF for hash_val = int(hex_slice, 16): the two
\* hex digits that end shift / 4 places before the end of the slice
ShiftedByte(hex, i, shift) ==
    LET last == SliceLen(hex, i) - (shift \div 4)
    IN  16 * SliceDigit(hex, i, last - 1) + SliceDigit(hex, i, last)

\* The four values appended for offset i, each a byte b standing for the
\* float b / 127.5 - 1.0.
Block(hex, i) ==
    <<ShiftedByte(hex, i, 24), ShiftedByte(hex, i, 16),
      ShiftedByte(hex, i, 8), ShiftedByte(hex, i, 0)>>

\* get_fallback_embeddings(text): for i in range(0, 2560, 4), as the list
\* of its blocks
get_fallback_embeddings(text) ==
    [k \in 1..(FALLBACK_DIMENSION \div 4) |-> Block(hexdigest(text), 4 * (k - 1))]

\* How the POST to the embedding service ends: it is not reached, it is
\* reached and serves the request, or what answers is a 2xx reply that is
\* not JSON or has no embedding member.
FrontReach ==
    {"connection_refused", "timeout", "served", "body_not_json", "no_embedding_field"}

FrontReplies == BatchReplies

NoFrontRequest == [called |-> FALSE, text |-> "", reach |-> "none"]
NoFrontResponse ==
    [source |-> "none", len |-> 0, embedding |-> FloatList(<<>>), blocks |-> <<>>]

FromService(embedding) ==
    [source |-> "service", len |-> embedding.len, embedding |-> embedding,
     blocks |-> <<>>]

\* get_fallback_embeddings of every text, computed once.
FallbackEmbeddings == [text \in Texts |-> get_fallback_embeddings(text)]

\* except Exception: return get_fallback_embeddings(text)
FromFallback(text) ==
    [source |-> "fallback", len |-> 4 * Len(FallbackEmbeddings[text]),
     embedding |-> FloatList(<<>>), blocks |-> FallbackEmbeddings[text]]

\* get_embeddings(text) of openai_compatible_api.py, `served` being the
\* embedding service's answer when it is reached: one requests.post,
\* raise_for_status, data.get("embedding", []), and the fallback on any
\* exception.
openai_get_embeddings(text, reach, served) ==
    IF reach = "served"
    THEN IF served.status = 200
         THEN [value |-> FromService(served.embedding), calls |-> 1]
         ELSE [value |-> FromFallback(text), calls |-> 1]
    ELSE IF reach = "no_embedding_field"
    THEN [value |-> FromService(FloatList(<<>>)), calls |-> 1]
    ELSE [value |-> FromFallback(text), calls |-> 1]

\* The front-end resolves one text; when its POST reaches the embedding
\* service, the service serves it as a POST /embed.
FrontEmbed(text, reach, reply) ==
    /\ reach = "served" => started
    /\ LET c == create_embedding(text, "None", reply, np_random)
           r == openai_get_embeddings(text, reach, c.response)
       IN  /\ front_response' = r.value
           /\ front_calls' = r.calls
           /\ IF reach = "served"
              THEN /\ request' = [endpoint |-> "/embed", text |-> text,
                                  model_name |-> "None", reply |-> reply]
                   /\ response' = c.response
                   /\ np_random' = c.rng
                   /\ backend_calls' = c.calls
              ELSE UNCHANGED <<request, response, np_random, backend_calls>>
    /\ front_request' = [called |-> TRUE, text |-> text, reach |-> reach]
    /\ UNCHANGED <<started, model_type, model_device, QWEN3_EMBEDDING_DIM, probe, health>>
    /\ UNCHANGED <<batch_vars, gen_vars, rpc_vars, hc_vars>>

NextFrontend ==
    \/ \E version_ok \in BOOLEAN, reply \in ProbeReplies, cuda \in BOOLEAN :
           Startup(version_ok, reply, cuda)
    \/ \E text \in Texts, reach \in FrontReach, reply \in FrontReplies :
           FrontEmbed(text, reach, reply)

----------------------------------------------------------------------------
(* deterministic_embedding as a function of its own: any caller, any text, *)
(* any dimension, in one process.                                          *)

GenDims == (0..MaxGenDim) \cup {DEFAULT_EMBEDDING_DIM}

Generate(text, dimension, keep) ==
    /\ LET d == deterministic_embedding(text, dimension, np_random)
           call == [called |-> TRUE, text |-> text, dimension |-> dimension,
                    vector |-> d.vector]
       IN  /\ gen_call' = call
           /\ np_random' = d.rng
           /\ gen_kept' = IF keep THEN call ELSE gen_kept
           /\ gen_between' = IF keep THEN FALSE
                             ELSE gen_between \/ (gen_kept.called /\ text # gen_kept.text)
    /\ UNCHANGED <<embed_vars, batch_vars, front_vars, rpc_vars, hc_vars>>

NextGenerate ==
    \E text \in Texts, dimension \in GenDims, keep \in BOOLEAN :
        Generate(text, dimension, keep)

----------------------------------------------------------------------------
(* The stdio bridges: qdrant_mcp_server.py and localai_mcp_server.py.       *)
(* JSON values: an object is a record (the empty object is << >>), a list  *)
(* a sequence, a string a string; None is kept apart from a list by a      *)
(* wrapper where the code tells them apart.                                 *)

EmptyMapping == << >>

\* dict.get(key, default)
Get(map, key, default) == IF key \in DOMAIN map THEN map[key] ELSE default

Min(a, b) == IF a < b THEN a ELSE b

\* The JSON null of a request id, and the None of request.get('id').
None == "null"

\* A value that is None or a list.
PyNone == [none |-> TRUE, items |-> << >>]
PyList(items) == [none |-> FALSE, items |-> items]

\* The params member of a request: a JSON object, or a JSON array (which
\* JSON-RPC allows and which has no .get).
ParamsObject(fields) == [type |-> "object", fields |-> fields]
ParamsArray == [type |-> "array", fields |-> EmptyMapping]

\* datetime.now().isoformat()
Timestamp == "<now>"

QDRANT_BASE_URL == "http://localhost:6333"
LOCALAI_BASE_URL == "http://localhost:8000"
DEFAULT_COLLECTION == "ai_communication_vectors"

----------------------------------------------------------------------------
(* The HTTP services behind the bridges, as seen through aiohttp.  `kind`   *)
(* is how a request ends: "ok" (a 2xx reply with a JSON body),             *)
(* "error_status" (a 4xx/5xx reply with the service's JSON error body;     *)
(* aiohttp does not raise on it), "connection_error" (the request raises)  *)
(* or "not_json" (response.json() raises).                                 *)

HttpReplyKinds == {"ok", "error_status", "connection_error", "not_json"}

HttpRaises(kind) == kind \in {"connection_error", "not_json"}

\* str(e) of what the request raised
ExceptionMessage(kind) ==
    IF kind = "connection_error"
    THEN "Cannot connect to host"
    ELSE "Attempt to decode JSON with unexpected mimetype"

HttpRequest(verb, url, json) == [verb |-> verb, url |-> url, json |-> json]

\* The JSON body of the reply to `what` when the request ends as `kind`.
\* Qdrant's error body has a status object and no result; FastAPI's has
\* only a detail.
ResponseBody(what, kind) ==
    IF kind # "ok"
    THEN IF server = "qdrant"
         THEN [status |-> [error |-> "Not found"], time |-> 0]
         ELSE [detail |-> "Not Found"]
    ELSE CASE what = "collections" ->
                [result |-> [collections |-> <<[name |-> DEFAULT_COLLECTION]>>],
                 status |-> "ok", time |-> 0]
           [] what = "create" ->
                [result |-> [acknowledged |-> TRUE], status |-> "ok", time |-> 0]
           [] what = "points" ->
                [result |-> [operation_id |-> 0, status |-> "acknowledged"],
                 status |-> "ok", time |-> 0]
           [] what = "search" ->
                [result |-> <<[id |-> 1, score |-> 1]>>, status |-> "ok", time |-> 0]
           [] what = "collection" ->
                [result |-> [status |-> "green", points_count |-> 1],
                 status |-> "ok", time |-> 0]
           [] what = "health" ->
                [status |-> "healthy", model_loaded |-> FALSE, device |-> "cpu"]
           [] what = "embeddings" ->
                [embeddings |-> <<[embedding |-> <<1, 2>>]>>, model |-> "qwen3"]
           [] what = "models" ->
                [models |-> <<"qwen3">>, current_model |-> "qwen3"]

\* What a handler hands back: the dict it returns and the requests it sent.
HandlerResult(result, sent) ==
    [raised |-> FALSE, message |-> "", result |-> result, sent |-> sent]

----------------------------------------------------------------------------
(* QdrantMCPServer                                                         *)

\* health_check
qdrant_health_check(kind) ==
    LET sent == <<HttpRequest("GET", QDRANT_BASE_URL \o "/collections", EmptyMapping)>>
        data == ResponseBody("collections", kind)
    IN  IF HttpRaises(kind)
        THEN HandlerResult([error |-> "Health check failed: " \o ExceptionMessage(kind)], sent)
        ELSE HandlerResult(
                [status |-> "ok",
                 service |-> "qdrant_vector_db",
                 endpoint |-> QDRANT_BASE_URL,
                 collections_count |->
                     Len(Get(Get(data, "result", EmptyMapping), "collections", << >>)),
                 timestamp |-> Timestamp], sent)

\* list_collections
list_collections(kind) ==
    LET sent == <<HttpRequest("GET", QDRANT_BASE_URL \o "/collections", EmptyMapping)>>
        data == ResponseBody("collections", kind)
        collections == Get(Get(data, "result", EmptyMapping), "collections", << >>)
    IN  IF HttpRaises(kind)
        THEN HandlerResult([error |-> "List collections failed: " \o ExceptionMessage(kind)], sent)
        ELSE HandlerResult(
                [collections |-> collections,
                 count |-> Len(collections),
                 status |-> "ok"], sent)

\* create_collection(collection_name)
create_collection(name, kind) ==
    LET payload == [vectors |-> [size |-> 384, distance |-> "Cosine"]]
        sent == <<HttpRequest("PUT", QDRANT_BASE_URL \o "/collections/" \o name, payload)>>
        data == ResponseBody("create", kind)
    IN  IF HttpRaises(kind)
        THEN HandlerResult([error |-> "Create collection failed: " \o ExceptionMessage(kind)], sent)
        ELSE HandlerResult(
                [collection |-> name,
                 status |-> Get(data, "status", "unknown"),
                 result |-> Get(data, "result", EmptyMapping),
                 created_at |-> Timestamp], sent)

\* lines 91-97: one point per pair of zip(vectors, metadata), numbered from 1
PointsFromZero(vectors, metadata) ==
    [i \in 1..Min(Len(vectors), Len(metadata)) |->
        [id |-> i - 1, vector |-> vectors[i], payload |-> metadata[i]]]
Points(vectors, metadata) ==
    [i \in 1..Min(Len(vectors), Len(metadata)) |->
        [id |-> i, vector |-> vectors[i], payload |-> metadata[i]]]

\* insert_vectors(vectors, metadata = None)
insert_vectors(vectors, metadata, kind) ==
    LET meta == IF metadata.none
                THEN [i \in 1..Len(vectors) |-> EmptyMapping]
                ELSE metadata.items
        payload == [points |-> Points(vectors, meta)]
        sent == <<HttpRequest("PUT",
                     QDRANT_BASE_URL \o "/collections/" \o collection_name \o "/points",
                     payload)>>
        data == ResponseBody("points", kind)
    IN  IF HttpRaises(kind)
        THEN HandlerResult([error |-> "Insert vectors failed: " \o ExceptionMessage(kind)], sent)
        ELSE HandlerResult(
                [inserted_count |-> Len(vectors),
                 collection |-> collection_name,
                 status |-> Get(data, "status", "unknown"),
                 result |-> Get(data, "result", EmptyMapping),
                 timestamp |-> Timestamp], sent)

\* search_vectors(query_vector, limit = 5)
search_vectors(query_vector, limit, kind) ==
    LET payload == [vector |-> query_vector, limit |-> limit, with_payload |-> TRUE]
        sent == <<HttpRequest("POST",
                     QDRANT_BASE_URL \o "/collections/" \o collection_name \o "/points/search",
                     payload)>>
        data == ResponseBody("search", kind)
        results == Get(data, "result", << >>)
    IN  IF HttpRaises(kind)
        THEN HandlerResult([error |-> "Search vectors failed: " \o ExceptionMessage(kind)], sent)
        ELSE HandlerResult(
                [search_results |-> results,
                 found_count |-> Len(results),
                 query_vector_dimension |-> Len(query_vector),
                 limit |-> limit,
                 collection |-> collection_name,
                 timestamp |-> Timestamp], sent)

\* get_collections_info
get_collections_info(kind) ==
    LET sent == <<HttpRequest("GET",
                     QDRANT_BASE_URL \o "/collections/" \o collection_name, EmptyMapping)>>
        data == ResponseBody("collection", kind)
    IN  IF HttpRaises(kind)
        THEN HandlerResult([error |-> "Get collections info failed: " \o ExceptionMessage(kind)], sent)
        ELSE HandlerResult(
                [collection_info |-> Get(data, "result", EmptyMapping),
                 status |-> "ok",
                 timestamp |-> Timestamp], sent)

----------------------------------------------------------------------------
(* LocalAIMCPServer                                                        *)

\* health_check
localai_health_check(kind) ==
    LET sent == <<HttpRequest("GET", LOCALAI_BASE_URL \o "/health", EmptyMapping)>>
        data == ResponseBody("health", kind)
    IN  IF HttpRaises(kind)
        THEN HandlerResult([error |-> "Health check failed: " \o ExceptionMessage(kind)], sent)
        ELSE HandlerResult(
                [status |-> "ok",
                 service |-> "localai_embedding_service",
                 endpoint |-> LOCALAI_BASE_URL,
                 health_data |-> data,
                 timestamp |-> Timestamp], sent)

\* len(embeddings[0].get('embedding', [])) if embeddings else 0
FirstDimension(embeddings) ==
    IF embeddings # << >> THEN Len(Get(embeddings[1], "embedding", << >>)) ELSE 0

\* generate_embeddings(texts)
generate_embeddings(texts, kind) ==
    LET sent == <<HttpRequest("POST", LOCALAI_BASE_URL \o "/embeddings", [texts |-> texts])>>
        data == ResponseBody("embeddings", kind)
        embeddings == Get(data, "embeddings", << >>)
    IN  IF HttpRaises(kind)
        THEN HandlerResult([error |-> "Generate embeddings failed: " \o ExceptionMessage(kind)], sent)
        ELSE HandlerResult(
                [embeddings |-> embeddings,
                 count |-> Len(embeddings),
                 dimension |-> FirstDimension(embeddings),
                 model |-> Get(data, "model", "unknown"),
                 timestamp |-> Timestamp], sent)

\* generate_single_embedding(text)
generate_single_embedding(text, kind) ==
    LET sent == <<HttpRequest("POST", LOCALAI_BASE_URL \o "/embeddings", [texts |-> <<text>>])>>
        data == ResponseBody("embeddings", kind)
        embeddings == Get(data, "embeddings", << >>)
    IN  IF HttpRaises(kind)
        THEN HandlerResult([error |-> "Generate single embedding failed: " \o ExceptionMessage(kind)], sent)
        ELSE HandlerResult(
                [embedding |-> IF embeddings # << >>
                               THEN Get(embeddings[1], "embedding", << >>) ELSE << >>,
                 text |-> text,
                 dimension |-> FirstDimension(embeddings),
                 model |-> Get(data, "model", "unknown"),
                 timestamp |-> Timestamp], sent)

\* get_models
get_models(kind) ==
    LET sent == <<HttpRequest("GET", LOCALAI_BASE_URL \o "/models", EmptyMapping)>>
        data == ResponseBody("models", kind)
    IN  IF HttpRaises(kind)
        THEN HandlerResult([error |-> "Get models failed: " \o ExceptionMessage(kind)], sent)
        ELSE HandlerResult(
                [models |-> Get(data, "models", << >>),
                 current_model |-> Get(data, "current_model", "unknown"),
                 status |-> "ok",
                 timestamp |-> Timestamp], sent)

----------------------------------------------------------------------------
(* handle_request of both servers                                          *)

\* str(e) of the AttributeError of params.get when params is a JSON array
NoGetOnList == "'list' object has no attribute 'get'"

\* except Exception as e: return {'error': str(e)}
HandleRequestExcept(message) == HandlerResult([error |-> message], << >>)

\* else: return {'error': f'Unknown method: {method}'}
UnknownMethodNoName(method) == HandlerResult([error |-> "Unknown method"], << >>)
UnknownMethod(method) == HandlerResult([error |-> "Unknown method: " \o method], << >>)

\* QdrantMCPServer.handle_request(method, params)
qdrant_handle_request(method, params, kind) ==
    CASE method = "qdrant_health" -> qdrant_health_check(kind)
      [] method = "qdrant_collections" -> list_collections(kind)
      [] method = "qdrant_create_collection" ->
            IF params.type # "object" THEN HandleRequestExcept(NoGetOnList)
            ELSE create_collection(
                    Get(params.fields, "collection_name", collection_name), kind)
      [] method = "qdrant_insert_vectors" ->
            IF params.type # "object" THEN HandleRequestExcept(NoGetOnList)
            ELSE insert_vectors(Get(params.fields, "vectors", << >>),
                                Get(params.fields, "metadata", PyList(<< >>)), kind)
      [] method = "qdrant_search" ->
            IF params.type # "object" THEN HandleRequestExcept(NoGetOnList)
            ELSE search_vectors(Get(params.fields, "query_vector", << >>),
                                Get(params.fields, "limit", 5), kind)
      [] method = "qdrant_collections_info" -> get_collections_info(kind)
      [] OTHER -> UnknownMethod(method)

\* LocalAIMCPServer.handle_request(method, params)
localai_handle_request(method, params, kind) ==
    CASE method = "embedding_health" -> localai_health_check(kind)
      [] method = "embedding_generate" ->
            IF params.type # "object" THEN HandleRequestExcept(NoGetOnList)
            ELSE generate_embeddings(Get(params.fields, "texts", << >>), kind)
      [] method = "embedding_generate_single" ->
            IF params.type # "object" THEN HandleRequestExcept(NoGetOnList)
            ELSE generate_single_embedding(Get(params.fields, "text", ""), kind)
      [] method = "embedding_models" -> get_models(kind)
      [] OTHER -> UnknownMethod(method)

handle_request(method, params, kind) ==
    IF server = "qdrant" THEN qdrant_handle_request(method, params, kind)
    ELSE localai_handle_request(method, params, kind)

----------------------------------------------------------------------------
(* The lines a client writes to a bridge.  A line is what                   *)
(* json.loads(line.strip()) makes of it: "blank" (a bare newline) and      *)
(* "garbage" do not parse, "value" parses to a JSON value that is not an   *)
(* object (here a list), "object" parses to the object `fields`.           *)

BlankLine == [syntax |-> "blank", fields |-> EmptyMapping]
GarbageLine == [syntax |-> "garbage", fields |-> EmptyMapping]
ValueLine == [syntax |-> "value", fields |-> EmptyMapping]
NoLine == [syntax |-> "none", fields |-> EmptyMapping]

RequestLine(id, method, params) ==
    [syntax |-> "object", fields |-> [id |-> id, method |-> method, params |-> params]]

Ids == {"1", "2", "3"}

Vec12 == <<1, 2>>
Vec34 == <<3, 4>>
MetaA == [tag |-> "a"]
MetaB == [tag |-> "b"]

Call(method, params) == [method |-> method, params |-> params]

QdrantCalls ==
    { Call("qdrant_health", ParamsObject(EmptyMapping)),
      Call("qdrant_health", ParamsArray),
      Call("qdrant_collections", ParamsObject(EmptyMapping)),
      Call("qdrant_create_collection", ParamsObject([collection_name |-> "docs"])),
      Call("qdrant_create_collection", ParamsObject(EmptyMapping)),
      Call("qdrant_create_collection",
           ParamsObject([collection_name |-> "docs", vector_size |-> 2560,
                         distance |-> "Dot"])),
      Call("qdrant_insert_vectors", ParamsObject([vectors |-> <<Vec12>>])),
      Call("qdrant_insert_vectors", ParamsObject([vectors |-> <<Vec12, Vec34>>])),
      Call("qdrant_insert_vectors",
           ParamsObject([vectors |-> <<Vec12>>, metadata |-> PyNone])),
      Call("qdrant_insert_vectors",
           ParamsObject([vectors |-> <<Vec12, Vec34>>,
                         metadata |-> PyList(<<MetaA, MetaB>>)])),
      Call("qdrant_insert_vectors",
           ParamsObject([vectors |-> <<Vec12, Vec34>>, metadata |-> PyList(<<MetaA>>)])),
      Call("qdrant_insert_vectors",
           ParamsObject([vectors |-> <<Vec12>>, metadata |-> PyList(<<MetaA, MetaB>>)])),
      Call("qdrant_insert_vectors", ParamsArray),
      Call("qdrant_search", ParamsObject([query_vector |-> Vec12, limit |-> 3])),
      Call("qdrant_search", ParamsObject(EmptyMapping)),
      Call("qdrant_collections_info", ParamsObject(EmptyMapping)),
      Call("qdrant_collections_info", ParamsObject([collection_name |-> "docs"])),
      Call("bogus", ParamsObject(EmptyMapping)),
      Call("embedding_health", ParamsObject(EmptyMapping)) }

LocalAICalls ==
    { Call("embedding_health", ParamsObject(EmptyMapping)),
      Call("embedding_health", ParamsArray),
      Call("embedding_generate", ParamsObject([texts |-> <<"hello world", "test">>])),
      Call("embedding_generate", ParamsObject(EmptyMapping)),
      Call("embedding_generate", ParamsArray),
      Call("embedding_generate_single", ParamsObject([text |-> "hello world"])),
      Call("embedding_generate_single", ParamsObject(EmptyMapping)),
      Call("embedding_models", ParamsObject(EmptyMapping)),
      Call("bogus", ParamsObject(EmptyMapping)),
      Call("qdrant_health", ParamsObject(EmptyMapping)) }

Calls == IF server = "qdrant" THEN QdrantCalls ELSE LocalAICalls

\* Requests with every member, requests without id and params, a request
\* without a method, and the lines that are no request.
Lines ==
    {RequestLine(id, c.method, c.params) : id \in Ids, c \in Calls}
        \cup {[syntax |-> "object", fields |-> [method |-> c.method]] : c \in Calls}
        \cup {[syntax |-> "object", fields |-> [id |-> "1"]]}
        \cup {BlankLine, GarbageLine, ValueLine}

\* json.loads(line.strip()) succeeds
Parses(syntax) == syntax \in {"value", "object"}

\* request.get('id') of a line that is an object
IdOf(l) == IF l.syntax = "object" THEN Get(l.fields, "id", None) ELSE None

----------------------------------------------------------------------------
(* main: the read-dispatch-print loop, the same in both servers            *)

\* response = {'jsonrpc': '2.0', 'id': request.get('id'), 'result': result}
Response(req, result) ==
    [jsonrpc |-> "2.0", id |-> Get(req, "id", None), result |-> result]

\* error_response = {'jsonrpc': '2.0', 'id': None, 'error': {'message': str(e)}}
ErrorResponse(message) ==
    [jsonrpc |-> "2.0", id |-> None, error |-> [message |-> message]]

\* The except clauses of main: JSONDecodeError continues, any other
\* Exception prints an error response; either way the loop goes on.
MainExceptAnswersAll(exception, message, sent) ==
    [written |-> <<ErrorResponse(message)>>, sent |-> sent, crashed |-> FALSE]
MainExceptOnlyJson(exception, message, sent) ==
    IF exception = "JSONDecodeError"
    THEN [written |-> << >>, sent |-> sent, crashed |-> FALSE]
    ELSE [written |-> << >>, sent |-> sent, crashed |-> TRUE]
MainExcept(exception, message, sent) ==
    IF exception = "JSONDecodeError"
    THEN [written |-> << >>, sent |-> sent, crashed |-> FALSE]
    ELSE [written |-> <<ErrorResponse(message)>>, sent |-> sent, crashed |-> FALSE]

\* A loop body that passes over a JSON value that is not an object.
main_iteration_skips_values(l, kind) ==
    IF l.syntax # "object"
    THEN MainExcept("JSONDecodeError", "Expecting value", << >>)
    ELSE LET req == l.fields
             method == Get(req, "method", "")
             params == Get(req, "params", ParamsObject(EmptyMapping))
             h == handle_request(method, params, kind)
         IN  [written |-> <<Response(req, h.result)>>, sent |-> h.sent,
              crashed |-> FALSE]

\* One pass of the try block on line l, the HTTP request a handler sends
\* ending as `kind`.
main_iteration(l, kind) ==
    IF ~Parses(l.syntax)
    THEN MainExcept("JSONDecodeError", "Expecting value", << >>)
    ELSE IF l.syntax # "object"
    THEN MainExcept("AttributeError", NoGetOnList, << >>)
    ELSE LET req == l.fields
             method == Get(req, "method", "")
             params == Get(req, "params", ParamsObject(EmptyMapping))
             h == handle_request(method, params, kind)
         IN  IF h.raised
             THEN MainExcept("Exception", h.message, h.sent)
             ELSE [written |-> <<Response(req, h.result)>>, sent |-> h.sent,
                   crashed |-> FALSE]

\* A printed line by its id and shape.
Shape(resp) ==
    [id |-> resp.id,
     has_result |-> "result" \in DOMAIN resp,
     has_error |-> "error" \in DOMAIN resp,
     result_error |-> "result" \in DOMAIN resp /\ "error" \in DOMAIN resp.result]

\* print(json.dumps(response)); sys.stdout.flush()
WriteLinesFirst(out, lines) == [i \in 1..Len(lines) |-> Shape(lines[i])] \o out
WriteLines(out, lines) == out \o [i \in 1..Len(lines) |-> Shape(lines[i])]

\* A loop that reads on while a request is being handled.
ReadLineAhead(l) ==
    /\ pc \in {"Reading", "Dispatching"}
    /\ Len(arrived) < MaxLines
    /\ pc' = "Dispatching"
    /\ line' = l
    /\ arrived' = Append(arrived, [syntax |-> l.syntax, id |-> IdOf(l)])
    /\ written' = << >>
    /\ http_sent' = << >>
    /\ http_reply' = "none"
    /\ UNCHANGED <<server, collection_name, eof, stdout, insert_calls, created>>
    /\ UNCHANGED <<embed_vars, np_random, batch_vars, front_vars, gen_vars, hc_vars>>

\* line = readline(): a line has arrived
ReadLine(l) ==
    /\ pc = "Reading"
    /\ Len(arrived) < MaxLines
    /\ pc' = "Dispatching"
    /\ line' = l
    /\ arrived' = Append(arrived, [syntax |-> l.syntax, id |-> IdOf(l)])
    /\ written' = << >>
    /\ http_sent' = << >>
    /\ http_reply' = "none"
    /\ UNCHANGED <<server, collection_name, eof, stdout, insert_calls, created>>
    /\ UNCHANGED <<embed_vars, np_random, batch_vars, front_vars, gen_vars, hc_vars>>

\* line = readline() returns '': if not line: break
ReadEof ==
    /\ pc = "Reading"
    /\ pc' = "Terminated"
    /\ eof' = TRUE
    /\ UNCHANGED <<server, collection_name, line, arrived, stdout, written,
                   http_sent, http_reply, insert_calls, created>>
    /\ UNCHANGED <<embed_vars, np_random, batch_vars, front_vars, gen_vars, hc_vars>>

\* The collections named in the create requests among `sent`, the requests
\* sent while handling line l.
CreateRequested(l, sent) ==
    IF /\ sent # << >>
       /\ server = "qdrant"
       /\ l.syntax = "object"
       /\ Get(l.fields, "method", "") = "qdrant_create_collection"
    THEN {Get(Get(l.fields, "params", ParamsObject(EmptyMapping)).fields,
              "collection_name", collection_name)}
    ELSE {}

\* A server whose create_collection makes the collection it creates the
\* one its later calls work on.
DispatchCreateSelects(kind) ==
    /\ pc = "Dispatching"
    /\ LET it == main_iteration(line, kind)
       IN  /\ written' = it.written
           /\ stdout' = WriteLines(stdout, it.written)
           /\ http_sent' = it.sent
           /\ http_reply' = IF it.sent = << >> THEN "none" ELSE kind
           /\ insert_calls' = insert_calls + Cardinality(
                  {i \in 1..Len(it.sent) : "points" \in DOMAIN it.sent[i].json})
           /\ created' = created \cup CreateRequested(line, it.sent)
           /\ collection_name' =
                  IF CreateRequested(line, it.sent) = {} THEN collection_name
                  ELSE CHOOSE name \in CreateRequested(line, it.sent) : TRUE
           /\ pc' = IF it.crashed THEN "Terminated" ELSE "Reading"
    /\ UNCHANGED <<server, eof, line, arrived>>
    /\ UNCHANGED <<embed_vars, np_random, batch_vars, front_vars, gen_vars, hc_vars>>

\* The rest of the loop body for the line read: parse, handle, print.
Dispatch(kind) ==
    /\ pc = "Dispatching"
    /\ LET it == main_iteration(line, kind)
       IN  /\ written' = it.written
           /\ stdout' = WriteLines(stdout, it.written)
           /\ http_sent' = it.sent
           /\ http_reply' = IF it.sent = << >> THEN "none" ELSE kind
           /\ insert_calls' = insert_calls + Cardinality(
                  {i \in 1..Len(it.sent) : "points" \in DOMAIN it.sent[i].json})
           /\ created' = created \cup CreateRequested(line, it.sent)
           /\ pc' = IF it.crashed THEN "Terminated" ELSE "Reading"
    /\ UNCHANGED <<server, collection_name, eof, line, arrived>>
    /\ UNCHANGED <<embed_vars, np_random, batch_vars, front_vars, gen_vars, hc_vars>>

NextDispatcher ==
    \/ \E l \in Lines : ReadLine(l)
    \/ ReadEof
    \/ \E kind \in HttpReplyKinds : Dispatch(kind)

----------------------------------------------------------------------------
(* healthcheck.py: the container health check script.                      *)

\* max_retries = 3
max_retries == 3

\* Total GPU memory in tenths of a GB, below, at and above the 3.5 GB that
\* check_basic_gpu asks for.
GpuMemory == {20, 35, 160}

\* check_basic_gpu(), by what it prints; it returns True when the GPU is OK
check_basic_gpu(cuda, gpu_mem) ==
    IF ~cuda THEN "GPU not available"
    ELSE IF gpu_mem < 35 THEN "Insufficient GPU memory"
    ELSE "GPU OK"

\* How a GET of the LLM service's /health ends: a 200 reply with a JSON
\* body of the expected members, a 200 reply whose body is not JSON, a
\* reply with another status, or no reply (refused, timeout).
LlmReplies == {"ok", "ok_not_json", "error_status", "connection_error"}

\* The reply makes requests raise a RequestException.  response.json() of
\* a body that is not JSON raises requests.exceptions.JSONDecodeError, a
\* RequestException, in the requests releases that have it, and a plain
\* ValueError in older ones.
RaisesRequestException(reply, json_error_is_request_exception) ==
    \/ reply = "connection_error"
    \/ reply = "ok_not_json" /\ json_error_is_request_exception

\* main up to the call of the check; `importable` is whether
\* `import requests` succeeds.
HcMain(service, importable) ==
    /\ hc_pc = "start"
    /\ hc_service' = service
    /\ hc_pc' = IF service = "llm" /\ importable THEN "loop" ELSE "gpu"
    /\ UNCHANGED <<hc_i, hc_replies, hc_gpu, hc_result, hc_exit>>
    /\ UNCHANGED <<embed_vars, np_random, batch_vars, front_vars, gen_vars, rpc_vars>>

\* One pass of the for loop of check_llm_service: the GET and what follows
\* from its reply.
HcGet(reply, json_error_is_request_exception) ==
    /\ hc_pc = "loop"
    /\ hc_replies' = Append(hc_replies, reply)
    /\ IF reply = "ok"
       THEN /\ hc_result' = "True"
            /\ hc_pc' = "returned"
            /\ hc_i' = hc_i
       ELSE IF RaisesRequestException(reply, json_error_is_request_exception)
       THEN IF hc_i < max_retries - 1
            THEN /\ hc_pc' = "sleep"
                 /\ UNCHANGED <<hc_result, hc_i>>
            ELSE /\ hc_result' = "False"
                 /\ hc_pc' = "returned"
                 /\ hc_i' = hc_i
       ELSE IF reply = "ok_not_json"
       THEN /\ hc_result' = "raised"
            /\ hc_pc' = "returned"
            /\ hc_i' = hc_i
       ELSE /\ hc_i' = hc_i + 1
            /\ hc_pc' = IF hc_i + 1 < max_retries THEN "loop" ELSE "gpu"
            /\ hc_result' = hc_result
    /\ UNCHANGED <<hc_service, hc_gpu, hc_exit>>
    /\ UNCHANGED <<embed_vars, np_random, batch_vars, front_vars, gen_vars, rpc_vars>>

\* time.sleep(2); continue
HcSleep ==
    /\ hc_pc = "sleep"
    /\ hc_i' = hc_i + 1
    /\ hc_pc' = "loop"
    /\ UNCHANGED <<hc_service, hc_replies, hc_gpu, hc_result, hc_exit>>
    /\ UNCHANGED <<embed_vars, np_random, batch_vars, front_vars, gen_vars, rpc_vars>>

\* check_basic_gpu(), called by main for the embedding service, and by
\* check_llm_service as its last statement: after the ImportError, and
\* after a loop that ended without a return.
HcGpu(cuda, gpu_mem) ==
    /\ hc_pc = "gpu"
    /\ hc_gpu' = check_basic_gpu(cuda, gpu_mem)
    /\ hc_result' = IF hc_gpu' = "GPU OK" THEN "True" ELSE "False"
    /\ hc_pc' = "returned"
    /\ UNCHANGED <<hc_service, hc_i, hc_replies, hc_exit>>
    /\ UNCHANGED <<embed_vars, np_random, batch_vars, front_vars, gen_vars, rpc_vars>>

\* sys.exit(0) when the check returned True, sys.exit(1) otherwise; an
\* exception that leaves main ends the script with status 1 as well.
HcExit ==
    /\ hc_pc = "returned"
    /\ hc_exit' = IF hc_result = "True" THEN "0" ELSE "1"
    /\ hc_pc' = "exited"
    /\ UNCHANGED <<hc_service, hc_i, hc_replies, hc_gpu, hc_result>>
    /\ UNCHANGED <<embed_vars, np_random, batch_vars, front_vars, gen_vars, rpc_vars>>

NextHealthcheck ==
    \/ \E service \in {"embedding", "llm"}, importable \in BOOLEAN :
           HcMain(service, importable)
    \/ \E reply \in LlmReplies, json_error_is_request_exception \in BOOLEAN :
           HcGet(reply, json_error_is_request_exception)
    \/ HcSleep
    \/ \E cuda \in BOOLEAN, gpu_mem \in GpuMemory : HcGpu(cuda, gpu_mem)
    \/ HcExit

----------------------------------------------------------------------------
(* The processes.  Each specification runs one of them; the variables of   *)
(* the others stay as they start.                                          *)

\* The embedding service process (and no bridge).
InitEmbedding ==
    /\ started = FALSE
    /\ model_type = "sentence_transformers"
    /\ model_device = "cpu"
    /\ QWEN3_EMBEDDING_DIM = DEFAULT_EMBEDDING_DIM
    /\ probe = NoProbe
    /\ np_random \in [seed : EntropySeeds, pos : {0}]
    /\ request = NoRequest
    /\ response = NoResponse
    /\ backend_calls = 0
    /\ health = NoHealth
    /\ batch_request = NoBatch
    /\ batch_response = NoBatchResponse
    /\ batch_trace = << >>
    /\ front_request = NoFrontRequest
    /\ front_response = NoFrontResponse
    /\ front_calls = 0
    /\ gen_call = NoCall
    /\ gen_kept = NoCall
    /\ gen_between = FALSE
    /\ server = "none"
    /\ collection_name = IF server = "qdrant" THEN DEFAULT_COLLECTION ELSE ""
    /\ pc = "Reading"
    /\ eof = FALSE
    /\ line = NoLine
    /\ arrived = << >>
    /\ stdout = << >>
    /\ written = << >>
    /\ http_sent = << >>
    /\ http_reply = "none"
    /\ insert_calls = 0
    /\ created = {}
    /\ hc_service = "none"
    /\ hc_pc = "start"
    /\ hc_i = 0
    /\ hc_replies = << >>
    /\ hc_gpu = "none"
    /\ hc_result = "none"
    /\ hc_exit = "none"

\* A bridge process, either of the two (and no embedding service).
InitBridge ==
    /\ started = FALSE
    /\ model_type = "sentence_transformers"
    /\ model_device = "cpu"
    /\ QWEN3_EMBEDDING_DIM = DEFAULT_EMBEDDING_DIM
    /\ probe = NoProbe
    /\ np_random = [seed |-> [hi |-> 0, lo |-> 0], pos |-> 0]
    /\ request = NoRequest
    /\ response = NoResponse
    /\ backend_calls = 0
    /\ health = NoHealth
    /\ batch_request = NoBatch
    /\ batch_response = NoBatchResponse
    /\ batch_trace = << >>
    /\ front_request = NoFrontRequest
    /\ front_response = NoFrontResponse
    /\ front_calls = 0
    /\ gen_call = NoCall
    /\ gen_kept = NoCall
    /\ gen_between = FALSE
    /\ server \in {"qdrant", "localai"}
    /\ collection_name = IF server = "qdrant" THEN DEFAULT_COLLECTION ELSE ""
    /\ pc = "Reading"
    /\ eof = FALSE
    /\ line = NoLine
    /\ arrived = << >>
    /\ stdout = << >>
    /\ written = << >>
    /\ http_sent = << >>
    /\ http_reply = "none"
    /\ insert_calls = 0
    /\ created = {}
    /\ hc_service = "none"
    /\ hc_pc = "start"
    /\ hc_i = 0
    /\ hc_replies = << >>
    /\ hc_gpu = "none"
    /\ hc_result = "none"
    /\ hc_exit = "none"

\* The health check script (and no service).
InitHealthcheck ==
    /\ started = FALSE
    /\ model_type = "sentence_transformers"
    /\ model_device = "cpu"
    /\ QWEN3_EMBEDDING_DIM = DEFAULT_EMBEDDING_DIM
    /\ probe = NoProbe
    /\ np_random = [seed |-> [hi |-> 0, lo |-> 0], pos |-> 0]
    /\ request = NoRequest
    /\ response = NoResponse
    /\ backend_calls = 0
    /\ health = NoHealth
    /\ batch_request = NoBatch
    /\ batch_response = NoBatchResponse
    /\ batch_trace = << >>
    /\ front_request = NoFrontRequest
    /\ front_response = NoFrontResponse
    /\ front_calls = 0
    /\ gen_call = NoCall
    /\ gen_kept = NoCall
    /\ gen_between = FALSE
    /\ server = "none"
    /\ collection_name = IF server = "qdrant" THEN DEFAULT_COLLECTION ELSE ""
    /\ pc = "Reading"
    /\ eof = FALSE
    /\ line = NoLine
    /\ arrived = << >>
    /\ stdout = << >>
    /\ written = << >>
    /\ http_sent = << >>
    /\ http_reply = "none"
    /\ insert_calls = 0
    /\ created = {}
    /\ hc_service = "none"
    /\ hc_pc = "start"
    /\ hc_i = 0
    /\ hc_replies = << >>
    /\ hc_gpu = "none"
    /\ hc_result = "none"
    /\ hc_exit = "none"

\* All processes side by side.
Init ==
    /\ started = FALSE
    /\ model_type = "sentence_transformers"
    /\ model_device = "cpu"
    /\ QWEN3_EMBEDDING_DIM = DEFAULT_EMBEDDING_DIM
    /\ probe = NoProbe
    /\ np_random \in [seed : EntropySeeds, pos : {0}]
    /\ request = NoRequest
    /\ response = NoResponse
    /\ backend_calls = 0
    /\ health = NoHealth
    /\ batch_request = NoBatch
    /\ batch_response = NoBatchResponse
    /\ batch_trace = << >>
    /\ front_request = NoFrontRequest
    /\ front_response = NoFrontResponse
    /\ front_calls = 0
    /\ gen_call = NoCall
    /\ gen_kept = NoCall
    /\ gen_between = FALSE
    /\ server \in {"qdrant", "localai"}
    /\ collection_name = IF server = "qdrant" THEN DEFAULT_COLLECTION ELSE ""
    /\ pc = "Reading"
    /\ eof = FALSE
    /\ line = NoLine
    /\ arrived = << >>
    /\ stdout = << >>
    /\ written = << >>
    /\ http_sent = << >>
    /\ http_reply = "none"
    /\ insert_calls = 0
    /\ created = {}
    /\ hc_service = "none"
    /\ hc_pc = "start"
    /\ hc_i = 0
    /\ hc_replies = << >>
    /\ hc_gpu = "none"
    /\ hc_result = "none"
    /\ hc_exit = "none"

vars == <<started, model_type, model_device, QWEN3_EMBEDDING_DIM, probe, np_random,
          request, response, backend_calls, health, batch_request, batch_response,
          batch_trace, front_request, front_response, front_calls,
          gen_call, gen_kept, gen_between,
          server, collection_name, pc, eof, line, arrived, stdout, written,
          http_sent, http_reply, insert_calls, created,
          hc_service, hc_pc, hc_i, hc_replies, hc_gpu, hc_result, hc_exit>>

\* The embedding service.
SpecEmbedding == InitEmbedding /\ [][NextEmbedding]_vars
\* The embedding service with its health endpoint.
SpecHealth == InitEmbedding /\ [][NextHealth]_vars
\* The embedding service answering batches.
SpecBatch == InitEmbedding /\ [][NextBatch]_vars
\* The front-end in front of the embedding service.
SpecFrontend == InitEmbedding /\ [][NextFrontend]_vars
\* deterministic_embedding called on its own.
SpecGenerate == InitEmbedding /\ [][NextGenerate]_vars
\* One bridge, either of the two.
SpecDispatcher == InitBridge /\ [][NextDispatcher]_vars
\* One run of the health check script.
SpecHealthcheck == InitHealthcheck /\ [][NextHealthcheck]_vars

Next ==
    \/ NextEmbedding
    \/ NextHealth
    \/ NextBatch
    \/ NextFrontend
    \/ NextGenerate
    \/ NextDispatcher
    \/ NextHealthcheck
Spec == Init /\ [][Next]_vars

----------------------------------------------------------------------------
(* Claims about the embedding service.                                     *)

Served == request.endpoint = "/embed"
BackendReady == model_type = "ollama_qwen3"

\* The vector deterministic_embedding gives for the text of the last request.
FallbackVectorOfRequest ==
    deterministic_embedding(request.text, DEFAULT_EMBEDDING_DIM, np_random).vector

\* C1: after a failed startup probe every POST /embed is answered with the
\* deterministic fallback vector of its text: no exception, no 5xx, and no
\* call to the backend.
C1_ProbeFailureServesFallback ==
    (started /\ ~BackendReady /\ Served) =>
        /\ response.status = 200
        /\ response.embedding = FallbackVectorOfRequest
        /\ backend_calls = 0

\* C2: with the backend ready and targetDimension d recorded by the probe,
\* every vector returned has length exactly d, on the remote path and on
\* the fallback path.
C2_ResolveHasTargetDimension ==
    (BackendReady /\ Served) =>
        /\ response.status = 200
        /\ response.embedding.len = QWEN3_EMBEDDING_DIM
        /\ response.dimension = QWEN3_EMBEDDING_DIM

\* C3: with the backend ready, a backend call that fails in any way does not
\* make the request fail: the answer is the deterministic fallback vector of
\* the same text.
C3_BackendFailureFallsBack ==
    (BackendReady /\ Served /\ request.reply.kind # "embedding") =>
        /\ response.status = 200
        /\ response.embedding = FallbackVectorOfRequest

C3_Witness ==
    /\ BackendReady /\ Served
    /\ request.reply.kind = "no_embedding_field"
    /\ request.text = "hello world"
    /\ response.status = 200
    /\ response.embedding.stream.seed = Seed("hello world")
    /\ backend_calls = 1

\* C10: two calls of deterministic_embedding with the same text and the same
\* dimension return the identical vector, whatever calls for other texts
\* ran before or between them.
C10_GenerateDeterministic ==
    (gen_call.called /\ gen_kept.called
        /\ gen_call.text = gen_kept.text
        /\ gen_call.dimension = gen_kept.dimension) =>
        gen_call.vector = gen_kept.vector

C10_Witness ==
    /\ gen_call.called /\ gen_kept.called /\ gen_between
    /\ gen_call.text = gen_kept.text
    /\ gen_call.dimension = DEFAULT_EMBEDDING_DIM
    /\ gen_kept.dimension = DEFAULT_EMBEDDING_DIM
    /\ gen_call.vector = gen_kept.vector


\* 0.0 as a component of a returned list.
Zero == [num |-> 0, den2 |-> 1]

\* The backend's embedding of the last request, cut or padded to the target
\* dimension: the vector get_embeddings normalizes.
ReconciledOfRequest == ReconcileDimension(request.reply.vec, QWEN3_EMBEDDING_DIM)

\* C11: when the vector to be normalized is all zeros, the request is
\* answered with that zero vector, and no component of it is nan.
C11_ZeroVectorReturnedUnchanged ==
    (/\ BackendReady /\ Served
     /\ request.reply.kind = "embedding"
     /\ \A i \in 1..Len(ReconciledOfRequest) : ReconciledOfRequest[i] = 0) =>
        /\ response.status = 200
        /\ response.embedding.elems = [i \in 1..Len(ReconciledOfRequest) |-> Zero]
        /\ \A i \in 1..Len(response.embedding.elems) :
              response.embedding.elems[i] # NaN

\* C13: a batch of N items is answered with N responses, the i-th the
\* response to item i, and everything done for item i (its backend call,
\* its fallback, its return) comes before anything done for item i+1.
C13_BatchInSequence ==
    batch_request.called =>
        LET items == batch_request.items
        IN  /\ batch_response.status = 200
            /\ Len(batch_response.responses) = Len(items)
            /\ \A i \in 1..Len(items) :
                  /\ batch_response.responses[i] =
                        create_embedding(items[i].text, "None", items[i].reply,
                                         np_random).response
                  /\ \E k \in 1..Len(batch_trace) : batch_trace[k] = Event("returned", i)
            /\ \A j, k \in 1..Len(batch_trace) :
                  j < k => batch_trace[j].item <= batch_trace[k].item

\* C15: serving a POST /embed changes nothing that outlives the request
\* (the model globals, the target dimension, numpy's process-wide
\* generator), and its response is the one the same request with the same
\* backend reply gets from a process that has served nothing yet.
C15_EmbedWritesNoSharedState ==
    [][ started =>
          /\ np_random' = np_random
          /\ model_type' = model_type
          /\ model_device' = model_device
          /\ QWEN3_EMBEDDING_DIM' = QWEN3_EMBEDDING_DIM
          /\ \A seed \in EntropySeeds :
                response' = create_embedding(request'.text, request'.model_name,
                                request'.reply, [seed |-> seed, pos |-> 0]).response
      ]_vars

\* C16: once the startup event has run, no step changes the target
\* dimension or the readiness of the backend (model_type).
C16_ProbeResultIsFinal ==
    [][ started =>
          /\ QWEN3_EMBEDDING_DIM' = QWEN3_EMBEDDING_DIM
          /\ model_type' = model_type ]_vars

\* The probe failed, and a later request found the backend working.
C16_Witness ==
    /\ started /\ ~BackendReady /\ Served
    /\ request.reply.kind = "embedding"
    /\ Len(request.reply.vec) = 3
    /\ QWEN3_EMBEDDING_DIM = DEFAULT_EMBEDDING_DIM
    /\ model_type = "sentence_transformers"

\* C17: after startup, either the version check and the test embedding
\* call both succeeded, the backend is marked ready and the target
\* dimension is the length of the embedding returned; or the backend is not
\* marked ready and model_type, model_device and the target dimension are
\* as they were before the probe.  The service has started in both cases.
C17_ProbeHasTwoOutcomes ==
    (probe # NoProbe \/ started) =>
        /\ started
        /\ IF probe.version_ok /\ probe.kind = "embedding"
           THEN /\ model_type = "ollama_qwen3"
                /\ QWEN3_EMBEDDING_DIM = probe.len
           ELSE /\ model_type = "sentence_transformers"
                /\ model_device = "cpu"
                /\ QWEN3_EMBEDDING_DIM = DEFAULT_EMBEDDING_DIM

C17_Witness ==
    /\ started
    /\ probe.version_ok
    /\ probe.kind = "no_embedding_field"
    /\ model_type = "sentence_transformers"
    /\ QWEN3_EMBEDDING_DIM = DEFAULT_EMBEDDING_DIM
    /\ Served

\* C18: resolving a text sends at most one POST, in the embedding service
\* (to the backend) and in the front-end (to the embedding service); a
\* call that failed was sent once and is followed by the fallback.
C18_NoRetry ==
    /\ backend_calls <= 1
    /\ front_calls <= 1
    /\ (Served /\ BackendReady /\ request.reply.kind # "embedding") =>
          /\ backend_calls = 1
          /\ response.embedding = FallbackVectorOfRequest
    /\ (front_request.called /\ front_request.reach \notin {"served", "no_embedding_field"}) =>
          /\ front_calls = 1
          /\ front_response.source = "fallback"

C18_Witness ==
    /\ front_request.called
    /\ front_request.reach = "served"
    /\ front_calls = 1
    /\ Served /\ BackendReady
    /\ request.reply.kind = "timeout"
    /\ backend_calls = 1
    /\ front_response.source = "service"
    /\ front_response.embedding = FallbackVectorOfRequest

\* The 8 hex digits that start i places into the digest, the digest being
\* read again from its start when its end is passed.
CyclicWindow(hex, i) ==
    [p \in 1..8 |-> hex[((i + p - 1) % Len(hex)) + 1]]

\* The four bytes of an 8-digit window, most significant first.
WindowBytes(w) ==
    <<16 * w[1] + w[2], 16 * w[3] + w[4], 16 * w[5] + w[6], 16 * w[7] + w[8]>>

\* The blocks whose offset lies past the end of the digest.
BlocksBeyondDigest(text) ==
    {k \in 1..(FALLBACK_DIMENSION \div 4) : 4 * (k - 1) >= Len(hexdigest(text))}

\* C20: in a vector of the front-end's hash fallback, every block of four
\* values is the four bytes of the 8-digit window of the digest at the
\* block's offset, the windows being taken cyclically once the digest is
\* exhausted; so the blocks past the end of the digest are not the same
\* for every text.
C20_FallbackWindowsAreCyclic ==
    (front_request.called /\ front_response.source = "fallback") =>
        LET text == front_request.text
        IN  /\ Len(front_response.blocks) = FALLBACK_DIMENSION \div 4
            /\ \A k \in 1..Len(front_response.blocks) :
                   front_response.blocks[k] =
                       WindowBytes(CyclicWindow(hexdigest(text), 4 * (k - 1)))
            /\ \E other \in Texts, k \in BlocksBeyondDigest(text) :
                   FallbackEmbeddings[other][k] # front_response.blocks[k]

\* C24: when the embedding service answers the front-end with a 2xx reply
\* whose body has no embedding member, the front-end returns its fallback
\* vector; the vector the front-end returns is never empty.
C24_MissingFieldFallsBack ==
    /\ (front_request.called /\ front_request.reach = "no_embedding_field") =>
          front_response = FromFallback(front_request.text)
    /\ front_request.called => front_response.len > 0

\* C27: the model_loaded of a /health reply is true when the startup probe
\* succeeded and false when it failed.
C27_HealthReportsProbe ==
    health.called => (health.model_loaded <=> BackendReady)

----------------------------------------------------------------------------
(* Claims about the health check script.                                   *)

\* C28: a run for the LLM service sends at most max_retries GETs, and it
\* succeeds (the check returns True, the script exits with status 0) only
\* if one of them was answered with status 200; so when none was, the
\* check fails whatever the GPU is.
C28_LlmCheckNeedsOk ==
    hc_service = "llm" =>
        /\ Len(hc_replies) <= max_retries
        /\ (hc_result = "True" \/ hc_exit = "0") =>
              \E k \in 1..Len(hc_replies) : hc_replies[k] \in {"ok", "ok_not_json"}
        /\ (/\ hc_pc \in {"returned", "exited"}
            /\ hc_replies # << >>
            /\ \A k \in 1..Len(hc_replies) :
                  hc_replies[k] \in {"error_status", "connection_error"}) =>
              hc_result = "False"

----------------------------------------------------------------------------
(* Claims about the stdio bridges.                                         *)

\* The line read last has been through the loop body.
Dispatched == pc = "Reading" /\ line.syntax # "none"

\* method and params as main takes them from a request
MethodOf(l) == Get(l.fields, "method", "")
ParamsOf(l) == Get(l.fields, "params", ParamsObject(EmptyMapping))

\* The methods handle_request of the running server knows, and those of
\* them that read params.
MethodTable ==
    IF server = "qdrant"
    THEN {"qdrant_health", "qdrant_collections", "qdrant_create_collection",
          "qdrant_insert_vectors", "qdrant_search", "qdrant_collections_info"}
    ELSE {"embedding_health", "embedding_generate", "embedding_generate_single",
          "embedding_models"}
ParamsMethods ==
    {"qdrant_create_collection", "qdrant_insert_vectors", "qdrant_search",
     "embedding_generate", "embedding_generate_single"}

AllRequests == \A i \in 1..Len(arrived) : arrived[i].syntax = "object"
Answered == IF pc = "Dispatching" THEN Len(arrived) - 1 ELSE Len(arrived)

\* C4: while every line that has arrived is a request, the lines on stdout
\* are the responses to the requests handled so far, one for each, in
\* arrival order, the i-th carrying the id of the i-th request.
C4_ResponsesInArrivalOrder ==
    AllRequests =>
        /\ Len(stdout) = Answered
        /\ \A i \in 1..Answered :
              stdout[i].id = arrived[i].id /\ stdout[i].has_result

C4_Witness ==
    /\ pc = "Reading"
    /\ [i \in 1..Len(arrived) |-> arrived[i].id] = <<"1", "2", "3">>
    /\ [i \in 1..Len(stdout) |-> stdout[i].id] = <<"1", "2", "3">>
    /\ AllRequests

\* C5: the loop body on a line that is not JSON writes nothing and goes
\* back to reading, and the loop body on a request that arrived right
\* after such a line writes one response with the request's id and a result
\* and goes back to reading.
C5_MalformedLineIsSkipped ==
    [][ /\ (pc = "Dispatching" /\ ~Parses(line.syntax)) =>
              (stdout' = stdout /\ written' = << >> /\ pc' = "Reading")
        /\ (/\ pc = "Dispatching"
            /\ line.syntax = "object"
            /\ Len(arrived) >= 2
            /\ ~Parses(arrived[Len(arrived) - 1].syntax)) =>
              /\ pc' = "Reading"
              /\ Len(stdout') = Len(stdout) + 1
              /\ stdout'[Len(stdout')].id = IdOf(line)
              /\ stdout'[Len(stdout')].has_result ]_vars

C5_Witness ==
    /\ Dispatched
    /\ Len(arrived) = 2
    /\ arrived[1].syntax = "garbage"
    /\ arrived[2].syntax = "object"
    /\ [i \in 1..Len(stdout) |-> stdout[i].id] = <<"2">>
    /\ "error" \notin DOMAIN written[1].result

\* C6: after qdrant_insert_vectors without a metadata parameter, the
\* request sent to the store holds one point for every vector supplied,
\* numbered from 1, each with the empty mapping as its payload.
C6_NoMetadataPairsEmptyMapping ==
    (/\ Dispatched
     /\ server = "qdrant"
     /\ line.syntax = "object"
     /\ MethodOf(line) = "qdrant_insert_vectors"
     /\ ParamsOf(line).type = "object"
     /\ "metadata" \notin DOMAIN ParamsOf(line).fields) =>
        LET vectors == Get(ParamsOf(line).fields, "vectors", << >>)
        IN  /\ Len(http_sent) = 1
            /\ http_sent[1].json.points =
                  [i \in 1..Len(vectors) |->
                      [id |-> i, vector |-> vectors[i], payload |-> EmptyMapping]]

\* C7: the loop body on a request whose method is not in the method table
\* writes one response whose result is the error "Unknown method: " and the
\* method name, sends no HTTP request, and goes back to reading.
C7_UnknownMethod ==
    [][ (/\ pc = "Dispatching"
         /\ line.syntax = "object"
         /\ MethodOf(line) \notin MethodTable) =>
            /\ Len(written') = 1
            /\ written'[1].id = IdOf(line)
            /\ written'[1].result = [error |-> "Unknown method: " \o MethodOf(line)]
            /\ stdout' = WriteLines(stdout, written')
            /\ http_sent' = << >>
            /\ pc' = "Reading" ]_vars

C7_Witness ==
    /\ Dispatched
    /\ server = "localai"
    /\ line.syntax = "object"
    /\ MethodOf(line) = "qdrant_health"
    /\ written # << >>
    /\ written[1].result = [error |-> "Unknown method: qdrant_health"]
    /\ Len(arrived) = 2
    /\ Len(stdout) = 2

\* The handler of the request dispatched last failed: the method is
\* unknown, params.get was called on params that are no mapping, or the
\* HTTP request did not end in a 2xx reply.
HandlerFailure ==
    \/ MethodOf(line) \notin MethodTable
    \/ ParamsOf(line).type # "object" /\ MethodOf(line) \in ParamsMethods
    \/ http_sent # << >> /\ http_reply # "ok"

\* C8: a request whose handler failed is answered by one response with the
\* request's id and a result that has an error member, and no top-level
\* error; every line on stdout with a top-level error has id null and no
\* result.
C8_ErrorChannelsDistinct ==
    /\ (Dispatched /\ line.syntax = "object" /\ HandlerFailure) =>
          /\ Len(written) = 1
          /\ written[1].id = IdOf(line)
          /\ "error" \notin DOMAIN written[1]
          /\ "result" \in DOMAIN written[1]
          /\ "error" \in DOMAIN written[1].result
    /\ \A i \in 1..Len(stdout) :
          stdout[i].has_error => (stdout[i].id = None /\ ~stdout[i].has_result)

\* The request dispatched last is qdrant_insert_vectors with a list of
\* vectors and a list of as many metadata entries.
InsertWithMetadata ==
    /\ Dispatched
    /\ server = "qdrant"
    /\ line.syntax = "object"
    /\ MethodOf(line) = "qdrant_insert_vectors"
    /\ ParamsOf(line).type = "object"
    /\ "metadata" \in DOMAIN ParamsOf(line).fields
    /\ ~ParamsOf(line).fields.metadata.none
    /\ Len(ParamsOf(line).fields.metadata.items) =
          Len(Get(ParamsOf(line).fields, "vectors", << >>))

\* C12: an insert of n vectors with n metadata entries sends the store n
\* points, point i with id i, vector i and metadata i, however many inserts
\* this process has sent before.
C12_PointsNumberedFromOne ==
    InsertWithMetadata =>
        LET vectors == Get(ParamsOf(line).fields, "vectors", << >>)
            metadata == ParamsOf(line).fields.metadata.items
        IN  /\ Len(http_sent) = 1
            /\ http_sent[1].json.points =
                  [i \in 1..Len(vectors) |->
                      [id |-> i, vector |-> vectors[i], payload |-> metadata[i]]]

C12_Witness ==
    /\ InsertWithMetadata
    /\ insert_calls = 2
    /\ http_sent[1].json.points =
          <<[id |-> 1, vector |-> Vec12, payload |-> MetaA],
            [id |-> 2, vector |-> Vec34, payload |-> MetaB]>>

\* The lines read that parse and have no line on stdout yet.
InFlight ==
    Cardinality({i \in 1..Len(arrived) : Parses(arrived[i].syntax)}) - Len(stdout)

\* C14: at most one request is in flight, and a line is read only when none
\* is: the loop is at its readline and everything read before has been
\* handled and, if it was JSON, answered on stdout.
C14_OneRequestInFlight ==
    [][ /\ InFlight <= 1
        /\ InFlight' <= 1
        /\ (arrived' # arrived) => (pc = "Reading" /\ InFlight = 0) ]_vars

C14_Witness ==
    /\ pc = "Dispatching"
    /\ AllRequests
    /\ Len(arrived) = 3
    /\ Len(stdout) = 2
    /\ InFlight = 1

\* The request dispatched last is a call of `method` on the Qdrant server
\* with an object as params.
QdrantCalled(method) ==
    /\ Dispatched
    /\ server = "qdrant"
    /\ line.syntax = "object"
    /\ MethodOf(line) = method
    /\ ParamsOf(line).type = "object"

\* C19: a create-collection call that names a collection, a vector size
\* and a distance metric asks the store for that collection with that size
\* and metric, and a collection-info call that names a collection asks the
\* store about that collection.
C19_CallerChoosesCollection ==
    /\ (/\ QdrantCalled("qdrant_create_collection")
        /\ {"collection_name", "vector_size", "distance"}
              \subseteq DOMAIN ParamsOf(line).fields) =>
          LET p == ParamsOf(line).fields
          IN  /\ Len(http_sent) = 1
              /\ http_sent[1].url = QDRANT_BASE_URL \o "/collections/" \o p.collection_name
              /\ http_sent[1].json.vectors =
                    [size |-> p.vector_size, distance |-> p.distance]
    /\ (/\ QdrantCalled("qdrant_collections_info")
        /\ "collection_name" \in DOMAIN ParamsOf(line).fields) =>
          /\ Len(http_sent) = 1
          /\ http_sent[1].url =
                QDRANT_BASE_URL \o "/collections/" \o ParamsOf(line).fields.collection_name

\* The request dispatched last made the Qdrant server call the store, and
\* the call failed: it raised a connection error, or the store answered
\* with an HTTP error status.
StoreCallFailed ==
    /\ Dispatched
    /\ server = "qdrant"
    /\ line.syntax = "object"
    /\ http_sent # << >>
    /\ http_reply \in {"connection_error", "error_status"}

\* C21: a failed call to the store is made once, and the request is
\* answered by one response whose result has an error member.
C21_FailedStoreCallSurfaces ==
    StoreCallFailed =>
        /\ Len(http_sent) = 1
        /\ Len(written) = 1
        /\ "result" \in DOMAIN written[1]
        /\ "error" \in DOMAIN written[1].result

\* The members under which a handler puts datetime.now().isoformat().
TimestampFields == {"timestamp", "created_at"}

\* The request dispatched last was served by its handler: the HTTP call
\* the handler made ended in a 2xx reply with a JSON body, and the result
\* has no error member.
HandlerSucceeded ==
    /\ Dispatched
    /\ line.syntax = "object"
    /\ http_sent # << >>
    /\ http_reply = "ok"
    /\ Len(written) = 1
    /\ "result" \in DOMAIN written[1]
    /\ "error" \notin DOMAIN written[1].result

\* C22: the result of every handler that succeeded, on either server, has
\* a generation timestamp among its members.
C22_ResultsCarryTimestamp ==
    HandlerSucceeded => (DOMAIN written[1].result \cap TimestampFields # {})

\* C23: the loop body on a line that parses as JSON, be it a request, a
\* request whose handler fails or a JSON value that is no object, writes
\* exactly one line and goes back to reading; on a line that does not
\* parse it writes nothing and goes back to reading.
C23_OneLinePerJsonLine ==
    [][ (pc = "Dispatching") =>
            /\ pc' = "Reading"
            /\ Len(written') = (IF Parses(line.syntax) THEN 1 ELSE 0)
            /\ Len(stdout') = Len(stdout) + Len(written')
            /\ SubSeq(stdout', 1, Len(stdout)) = stdout ]_vars

C23_Witness ==
    /\ Dispatched
    /\ Len(arrived) = 3
    /\ arrived[1].syntax = "value"
    /\ arrived[2].syntax = "object"
    /\ arrived[3].syntax = "garbage"
    /\ Len(stdout) = 2
    /\ stdout[1].has_error
    /\ stdout[2].result_error
    /\ written = << >>

\* C25: the inserted_count of an insert result is the number of points in
\* the request sent to the store.
C25_InsertedCountIsPointsSent ==
    (/\ QdrantCalled("qdrant_insert_vectors")
     /\ Len(written) = 1
     /\ "inserted_count" \in DOMAIN written[1].result) =>
        /\ Len(http_sent) = 1
        /\ written[1].result.inserted_count = Len(http_sent[1].json.points)

\* The path below /collections/<name> that the handler of `method` calls.
TargetPath(method) ==
    CASE method = "qdrant_insert_vectors" -> "/points"
      [] method = "qdrant_search" -> "/points/search"
      [] method = "qdrant_collections_info" -> ""

\* C26: no step of the Qdrant server changes the collection it works on,
\* which is the default collection, and every request that
\* qdrant_insert_vectors, qdrant_search and qdrant_collections_info send
\* goes to the default collection, whatever was created before.
C26_TargetCollectionIsFixed ==
    [][ server = "qdrant" =>
            /\ collection_name = DEFAULT_COLLECTION
            /\ collection_name' = collection_name
            /\ (/\ pc = "Dispatching"
                /\ line.syntax = "object"
                /\ MethodOf(line) \in {"qdrant_insert_vectors", "qdrant_search",
                                       "qdrant_collections_info"}
                /\ http_sent' # << >>) =>
                  /\ Len(http_sent') = 1
                  /\ http_sent'[1].url =
                        QDRANT_BASE_URL \o "/collections/" \o DEFAULT_COLLECTION
                            \o TargetPath(MethodOf(line)) ]_vars

C26_Witness ==
    /\ QdrantCalled("qdrant_insert_vectors")
    /\ "docs" \in created
    /\ Len(arrived) = 3
    /\ collection_name = DEFAULT_COLLECTION
    /\ Len(http_sent) = 1
    /\ http_sent[1].url =
          QDRANT_BASE_URL \o "/collections/" \o DEFAULT_COLLECTION \o "/points"
    /\ http_reply = "ok"

\* C9: the loop ends only by the empty read, and the loop body goes back to
\* reading whatever the line was and however its handler ended.
C9_TerminatesOnlyOnEof ==
    [][ /\ (pc = "Dispatching" => pc' = "Reading")
        /\ ((pc # "Terminated" /\ pc' = "Terminated") =>
               (pc = "Reading" /\ eof' = TRUE)) ]_vars

C9_Witness ==
    /\ Dispatched
    /\ Len(arrived) = 3
    /\ arrived[1].syntax = "value"
    /\ arrived[2].syntax = "blank"
    /\ line.syntax = "object"
    /\ HandlerFailure
    /\ Len(stdout) = 2
    /\ stdout[1].has_error
    /\ stdout[2].result_error

====
